---- MODULE Spec2Model ----
(***************************************************************************)
(* Model of ricomonster/hephaestus, package aws (src/aws/dynamodb.go):     *)
(* the filter-expression compiler (buildSingleCondition,                   *)
(* buildFilterExpression) and the paginated query executor (Query).        *)
(***************************************************************************)
EXTENDS Integers, Sequences, FiniteSets, TLC

VARIABLES
    where,      \* the Where value handed to buildFilterExpression
    cres,       \* what buildFilterExpression returned: [pred, err]
    cpc,        \* position of the compile call: "idle" | "call" | "done"
    opts,       \* the QueryOptions handed to Query
    pc,         \* position of the Query call: "idle" | "start" | "loop" | "done"
    ctxState,   \* the caller's context: done or not, and when it was cancelled
    input,      \* the dynamodb.QueryInput built at lines 145-153
    paginator,  \* the QueryPaginator's state: [firstPage, nextToken]
    items,      \* the local accumulator `items` of Query
    calls,      \* the requests NextPage handed to the client, in order
    served,     \* the pages the backend returned, in order
    ret         \* what Query returned: [items, err]

vars == <<where, cres, cpc, opts, pc, ctxState, input, paginator, items, calls,
          served, ret>>

compileVars == <<where, cres, cpc>>
queryVars == <<opts, pc, ctxState, input, paginator, items, calls, served, ret>>

(***************************************************************************)
(* Bounds of the model.                                                    *)
(***************************************************************************)
MaxLeaves == 3      \* WhereConditions in one Where tree, all nodes together
MaxGroups == 1      \* nested groups under one Where node
MaxPages == 3       \* pages the backend serves to one Query call
MaxItems == 3       \* items the backend serves to one Query call, all pages

(***************************************************************************)
(* Go values.                                                              *)
(***************************************************************************)
Nil == "nil"        \* a nil `any`
NilPtr == <<>>      \* a nil pointer
Ptr(x) == <<x>>     \* a pointer to x
Deref(p) == p[1]
NoErr == <<>>       \* a nil error

\* An error is its Unwrap chain, outermost first; each link is a message and
\* the argument formatted into it.
New(msg) == <<[msg |-> msg, arg |-> ""]>>               \* errors.New
Errorf(msg, a) == <<[msg |-> msg, arg |-> a]>>          \* fmt.Errorf without %w
Is(err, target) == \E i \in 1..Len(err) : err[i] = target[1]   \* errors.Is
NoPred == <<>>      \* expression.ConditionBuilder{}

AND == "AND"
OR == "OR"

Equal == "="
NotEqual == "!="
LessThan == "<"
LessThanEqual == "<="
GreaterThan == ">"
GreaterThanEqual == ">="
Between == "BETWEEN"
In == "IN"
Contains == "CONTAINS"
BeginsWith == "BEGINS_WITH"
AttributeExists == "EXISTS"
AttributeNotExists == "NOT_EXISTS"

defaultLimit == 100

DynamoDBErrBuildFilterExpression == New("failed to build filter expression")
DynamoDBErrIndexNotSet == New("index not set")
DynamoDBErrQuery == New("failed to perform query")
DynamoDBErrTableNotSet == New("table not set")
DynamoDBErrPartitionNotSet == New("partition not set")
ErrNoConditions == New("no conditions provided")
ErrEmptyIn == New("IN operator requires non-empty Values slice")
ErrUnsupportedOperator(op) == Errorf("unsupported operator: %s", op)
ErrUnsupportedSortOperator(op) == Errorf("unsupported sort key operator: %s", op)
ErrUnsetParameter == New("unset parameter")

(***************************************************************************)
(* 4.1  buildSingleCondition.  A compiled leaf is <<mode, field, operands>>,*)
(* a compiled conjunction or disjunction is <<"AND"|"OR", left, right>>.   *)
(***************************************************************************)
NoResult == [pred |-> NoPred, err |-> NoErr]
Ok(p) == [pred |-> p, err |-> NoErr]
Fail(e) == [pred |-> NoPred, err |-> e]

\* fmt.Sprint of an `any`
Sprint(v) == IF v = Nil THEN "<nil>" ELSE v

WhereCondition(f, op, v, v2, vs) ==
    [Field |-> f, Operator |-> op, Value |-> v, Value2 |-> v2, Values |-> vs]

buildSingleCondition(cond) ==
    CASE cond.Operator = Equal -> Ok(<<"equal", cond.Field, <<cond.Value>>>>)
      [] cond.Operator = NotEqual -> Ok(<<"notEqual", cond.Field, <<cond.Value>>>>)
      [] cond.Operator = LessThan -> Ok(<<"lessThan", cond.Field, <<cond.Value>>>>)
      [] cond.Operator = LessThanEqual ->
            Ok(<<"lessThanEqual", cond.Field, <<cond.Value>>>>)
      [] cond.Operator = GreaterThan ->
            Ok(<<"greaterThan", cond.Field, <<cond.Value>>>>)
      [] cond.Operator = GreaterThanEqual ->
            Ok(<<"greaterThanEqual", cond.Field, <<cond.Value>>>>)
      [] cond.Operator = Between ->
            Ok(<<"between", cond.Field, <<cond.Value, cond.Value2>>>>)
      [] cond.Operator = In ->
            IF Len(cond.Values) = 0
            THEN Fail(ErrEmptyIn)
            ELSE Ok(<<"in", cond.Field, cond.Values>>)
      [] cond.Operator = Contains ->
            Ok(<<"contains", cond.Field, <<Sprint(cond.Value)>>>>)
      [] cond.Operator = BeginsWith ->
            Ok(<<"beginsWith", cond.Field, <<Sprint(cond.Value)>>>>)
      [] cond.Operator = AttributeExists -> Ok(<<"attrExists", cond.Field, <<>>>>)
      [] cond.Operator = AttributeNotExists ->
            Ok(<<"attrNotExists", cond.Field, <<>>>>)
      [] OTHER -> Fail(ErrUnsupportedOperator(cond.Operator))

(***************************************************************************)
(* 4.2  buildFilterExpression.                                             *)
(***************************************************************************)
\* ConditionBuilder.And / ConditionBuilder.Or as chosen at lines 213-217
CombineAlwaysAnd(op, result, next) == <<"AND", result, next>>

Combine(op, result, next) ==
    IF op = "" \/ op = AND
    THEN <<"AND", result, next>>
    ELSE <<"OR", result, next>>

RECURSIVE FoldConditions(_, _, _)
\* lines 211-218: result := conditions[0]; for i := 1; i < len; i++ { ... }
FoldConditions(conditions, op, n) ==
    IF n = 1
    THEN conditions[1]
    ELSE Combine(op, FoldConditions(conditions, op, n - 1), conditions[n])

\* the index of the first failed compilation in a sequence of results, or 0
FirstError(results) ==
    IF \E i \in 1..Len(results) : results[i].err # NoErr
    THEN CHOOSE i \in 1..Len(results) :
            /\ results[i].err # NoErr
            /\ \A j \in 1..(i - 1) : results[j].err = NoErr
    ELSE 0

RECURSIVE buildFilterExpression(_)

\* lines 185-192: the leaf conditions, each through buildSingleCondition
ConditionResults(w) ==
    [i \in 1..Len(w.Conditions) |-> buildSingleCondition(w.Conditions[i])]

GroupResultsErrorDropped(w) ==
    [i \in 1..Len(w.Groups) |->
        [pred |-> buildFilterExpression(w.Groups[i]).pred, err |-> NoErr]]

\* lines 195-204: the nested groups, each through buildFilterExpression
GroupResults(w) ==
    [i \in 1..Len(w.Groups) |-> buildFilterExpression(w.Groups[i])]

buildFilterExpression(w) ==
    LET results == ConditionResults(w) \o GroupResults(w)
        failed == FirstError(results)
        conditions == [i \in 1..Len(results) |-> results[i].pred]
    IN  IF failed # 0
        THEN Fail(results[failed].err)
        ELSE IF Len(conditions) = 0
        THEN Fail(ErrNoConditions)
        ELSE Ok(FoldConditions(conditions, w.Operator, Len(conditions)))

(***************************************************************************)
(* Inputs of the compiler: every Where tree of at most two nesting levels  *)
(* below the root, MaxGroups groups per node and MaxLeaves conditions in   *)
(* all, over the pool A, B, C and one condition of an unknown operator;    *)
(* and one single-condition Where per operator and operand shape.          *)
(***************************************************************************)
CondA == WhereCondition("a", Equal, "1", Nil, <<>>)
CondB == WhereCondition("b", Equal, "2", Nil, <<>>)
CondC == WhereCondition("c", Equal, "3", Nil, <<>>)
CondUnsupported == WhereCondition("a", "LIKE", "1", Nil, <<>>)

ConditionPool == {CondA, CondB, CondC}
LogicalOperators == {"", AND, OR}

LeafSamples ==
    {WhereCondition("f", op, "1", Nil, <<>>) :
        op \in {NotEqual, LessThan, LessThanEqual, GreaterThan, GreaterThanEqual,
                AttributeExists, AttributeNotExists}}
    \cup {WhereCondition("f", Between, v, v2, <<>>) : v \in {Nil, "1"}, v2 \in {Nil, "9"}}
    \cup {WhereCondition("f", In, Nil, Nil, vs) : vs \in {<<>>, <<"1">>, <<"1", "2">>}}
    \cup {WhereCondition("f", op, v, Nil, <<>>) :
            op \in {Contains, BeginsWith}, v \in {Nil, "pika"}}
    \cup {WhereCondition("", Equal, "1", Nil, <<>>)}

Where(cs, gs, op) == [Conditions |-> cs, Groups |-> gs, Operator |-> op]

RECURSIVE WhereNodes(_, _)
RECURSIVE GroupSeqs(_, _, _)

\* sequences of at most m nodes of depth <= d holding exactly s conditions
GroupSeqs(d, s, m) ==
    (IF s = 0 THEN {<<>>} ELSE {}) \cup
    (IF d < 0 \/ m = 0
     THEN {}
     ELSE UNION {{<<g>> \o rest :
                    g \in WhereNodes(d, j), rest \in GroupSeqs(d, s - j, m - 1)} :
                 j \in 0..s})

\* Where nodes of nesting depth <= d holding exactly s conditions
WhereNodes(d, s) ==
    UNION {{Where(cs, gs, op) :
                cs \in [1..k -> ConditionPool],
                gs \in GroupSeqs(d - 1, s - k, MaxGroups),
                op \in LogicalOperators} : k \in 0..s}

WhereTrees == UNION {WhereNodes(1, s) : s \in 0..MaxLeaves}

\* deeper trees: a node of at most one condition, two levels below the root
DeepSamples ==
    {Where(cs, <<Where(cs2, <<g>>, op2)>>, op) :
        cs \in {<<>>, <<CondC>>}, cs2 \in {<<>>, <<CondB>>},
        g \in WhereNodes(0, 0) \cup WhereNodes(0, 1),
        op \in LogicalOperators, op2 \in LogicalOperators}

CondInEmpty == WhereCondition("f", In, Nil, Nil, <<>>)

\* a failing condition next to, above and below a group
FailingSamples ==
    {Where(<<c>>, <<g>>, op) :
        c \in {CondUnsupported, CondInEmpty, CondA},
        g \in {Where(<<>>, <<>>, op2) : op2 \in LogicalOperators}
              \cup {Where(<<c2>>, <<>>, OR) : c2 \in {CondUnsupported, CondInEmpty}},
        op \in LogicalOperators}

\* a logical operator that is neither AND nor OR nor empty
OtherOperatorSamples ==
    {Where(<<CondA, CondB>>, gs, "XOR") :
        gs \in {<<>>, <<Where(<<CondC>>, <<>>, AND)>>}}

CompileInputs ==
    WhereTrees \cup DeepSamples \cup FailingSamples \cup OtherOperatorSamples
    \cup {Where(<<c>>, <<>>, op) : c \in LeafSamples, op \in {"", OR}}

\* the example tree: Where{Groups:[{Conditions:[A,B], Operator:OR}],
\*                       Conditions:[C], Operator:AND}
ExampleWhere == Where(<<CondC>>, <<Where(<<CondA, CondB>>, <<>>, OR)>>, AND)

(***************************************************************************)
(* 4.3 / 4.4  Query: validation, key condition, filter, request.           *)
(***************************************************************************)
NoToken == ""       \* a nil LastEvaluatedKey / ExclusiveStartKey
NoItems == <<>>     \* a nil []map[string]types.AttributeValue

QueryKeyValue(k, v, op) == [Key |-> k, Value |-> v, Operator |-> op]

QueryOptions(t, i, l, c, p, so, w) ==
    [Table |-> t, Index |-> i, Limit |-> l, Cursor |-> c, Partition |-> p,
     Sort |-> so, Where |-> w]

ValidateIndexFirst(o) ==
    IF o.Index = ""
    THEN DynamoDBErrIndexNotSet
    ELSE IF o.Table = ""
    THEN DynamoDBErrTableNotSet
    ELSE IF o.Partition = NilPtr
    THEN DynamoDBErrPartitionNotSet
    ELSE IF Deref(o.Partition).Key = "" \/ Deref(o.Partition).Value = Nil
    THEN DynamoDBErrPartitionNotSet
    ELSE NoErr

\* lines 104-113
Validate(o) ==
    IF o.Table = ""
    THEN DynamoDBErrTableNotSet
    ELSE IF o.Index = ""
    THEN DynamoDBErrIndexNotSet
    ELSE IF o.Partition = NilPtr
    THEN DynamoDBErrPartitionNotSet
    ELSE IF Deref(o.Partition).Key = "" \/ Deref(o.Partition).Value = Nil
    THEN DynamoDBErrPartitionNotSet
    ELSE NoErr

\* lines 116-126; the partition is known to be set
KeyCondition(o) ==
    LET keyEx == <<"equal", Deref(o.Partition).Key, <<Deref(o.Partition).Value>>>>
    IN  IF o.Sort = NilPtr
        THEN Ok(keyEx)
        ELSE IF Deref(o.Sort).Key = "" \/ Deref(o.Sort).Value = Nil
        THEN Ok(keyEx)
        ELSE IF Deref(o.Sort).Operator = Equal
        THEN Ok(<<"AND", keyEx,
                  <<"equal", Deref(o.Sort).Key, <<Deref(o.Sort).Value>>>>>>)
        ELSE Fail(ErrUnsupportedSortOperator(Deref(o.Sort).Operator))

\* lines 131-137
Filter(o) ==
    IF o.Where = NilPtr
    THEN NoResult
    ELSE LET r == buildFilterExpression(Deref(o.Where))
         IN  IF r.err # NoErr THEN Fail(DynamoDBErrBuildFilterExpression) ELSE r

RECURSIVE Names(_)
\* the attribute names a compiled predicate refers to
Names(p) ==
    IF p = NoPred
    THEN {}
    ELSE IF p[1] \in {"AND", "OR"}
    THEN Names(p[2]) \cup Names(p[3])
    ELSE {p[2]}

\* lines 139-142: expression.Builder.Build rejects an empty attribute name
Build(keyEx, filterExpr) ==
    IF "" \in Names(keyEx) \cup Names(filterExpr) THEN ErrUnsetParameter ELSE NoErr

\* lines 145-157
QueryInput(o, keyEx, filterExpr) ==
    [TableName |-> o.Table, IndexName |-> o.Index, KeyConditionExpression |-> keyEx,
     FilterExpression |-> filterExpr, ExclusiveStartKey |-> NoToken,
     Limit |-> o.Limit]

NoInput ==
    [TableName |-> "", IndexName |-> "", KeyConditionExpression |-> NoPred,
     FilterExpression |-> NoPred, ExclusiveStartKey |-> NoToken, Limit |-> 0]

\* lines 102-157: everything Query does before it creates the paginator
Prepare(o) ==
    IF Validate(o) # NoErr
    THEN [err |-> Validate(o), input |-> NoInput]
    ELSE IF KeyCondition(o).err # NoErr
    THEN [err |-> KeyCondition(o).err, input |-> NoInput]
    ELSE IF Filter(o).err # NoErr
    THEN [err |-> Filter(o).err, input |-> NoInput]
    ELSE IF Build(KeyCondition(o).pred, Filter(o).pred) # NoErr
    THEN [err |-> Build(KeyCondition(o).pred, Filter(o).pred), input |-> NoInput]
    ELSE [err |-> NoErr,
          input |-> QueryInput(o, KeyCondition(o).pred, Filter(o).pred)]

(***************************************************************************)
(* The paginator of line 166 and the loop of lines 168-178.                *)
(***************************************************************************)
\* dynamodb.NewQueryPaginator(d.client, input)
NewQueryPaginator(o, in) ==
    [firstPage |-> TRUE, nextToken |-> in.ExclusiveStartKey, limit |-> in.Limit]

HasMorePages(p) == p.firstPage \/ p.nextToken # NoToken

\* the request NextPage hands to the client; Limit 0 stands for no limit
Request(p) ==
    [ExclusiveStartKey |-> p.nextToken, Limit |-> IF p.limit > 0 THEN p.limit ELSE 0]

RECURSIVE Flatten(_)
\* the items of a sequence of pages, in page order, then in-page order
Flatten(pages) ==
    IF Len(pages) = 0
    THEN <<>>
    ELSE Flatten(SubSeq(pages, 1, Len(pages) - 1)) \o pages[Len(pages)].Items

ItemPool == {"x", "y"}
TokenOf == <<"p1", "p2", "p3", "p4", "p5", "p6">>

\* the caller's option values
Tables == {"", "table"}
Indexes == {"", "Status"}
Partitions ==
    {NilPtr, Ptr(QueryKeyValue("", "active", "")), Ptr(QueryKeyValue("Status", Nil, "")),
     Ptr(QueryKeyValue("Status", "active", ""))}
Sorts ==
    {NilPtr, Ptr(QueryKeyValue("Created", "2025", Equal)),
     Ptr(QueryKeyValue("Created", "2025", BeginsWith)),
     Ptr(QueryKeyValue("", "2025", BeginsWith))}
Limits == {0, 25}
Cursors == {NoToken, "p1"}

\* the Where of the cli command (cli aws): Keywords CONTAINS "pika"
CliWhere == Where(<<WhereCondition("Keywords", Contains, "pika", Nil, <<>>)>>, <<>>, "")
CondBetweenNoUpper == WhereCondition("f", Between, "1", Nil, <<>>)

QueryWheres ==
    {NilPtr} \cup
    {Ptr(w) : w \in
        {CliWhere, ExampleWhere,
         Where(<<>>, <<>>, ""),
         Where(<<CondA>>, <<Where(<<>>, <<>>, OR)>>, AND),
         Where(<<CondUnsupported>>, <<>>, ""),
         Where(<<CondBetweenNoUpper>>, <<>>, ""),
         Where(<<CondInEmpty>>, <<>>, ""),
         Where(<<WhereCondition("", Equal, "1", Nil, <<>>)>>, <<>>, "")}}

NoOptions == QueryOptions("", "", 0, NoToken, NilPtr, NilPtr, NilPtr)
NoContext == [done |-> FALSE, after |-> 0, more |-> FALSE]
NoPaginator == [firstPage |-> FALSE, nextToken |-> NoToken, limit |-> 0]
NoReturn == [items |-> NoItems, err |-> NoErr]

QueryIdle ==
    /\ opts = NoOptions
    /\ pc = "idle"
    /\ ctxState = NoContext
    /\ input = NoInput
    /\ paginator = NoPaginator
    /\ items = NoItems
    /\ calls = <<>>
    /\ served = <<>>
    /\ ret = NoReturn

CompileIdle ==
    /\ where = Where(<<>>, <<>>, "")
    /\ cres = NoResult
    /\ cpc = "idle"

Init ==
    /\ opts \in {QueryOptions(t, i, l, c, p, so, w) :
                    t \in Tables, i \in Indexes, l \in Limits, c \in Cursors,
                    p \in Partitions, so \in Sorts, w \in QueryWheres}
    /\ pc = "start"
    /\ ctxState = NoContext
    /\ input = NoInput
    /\ paginator = NoPaginator
    /\ items = NoItems
    /\ calls = <<>>
    /\ served = <<>>
    /\ ret = NoReturn
    /\ CompileIdle

\* lines 102-166: validate, build the request, create the paginator
QueryBegin ==
    /\ pc = "start"
    /\ LET p == Prepare(opts)
       IN  IF p.err # NoErr
           THEN /\ pc' = "done"
                /\ ret' = [items |-> NoItems, err |-> p.err]
                /\ UNCHANGED <<input, paginator>>
           ELSE /\ pc' = "loop"
                /\ input' = p.input
                /\ paginator' = NewQueryPaginator(opts, p.input)
                /\ UNCHANGED ret
    /\ UNCHANGED <<opts, ctxState, items, calls, served>>
    /\ UNCHANGED compileVars

ItemsServed == Len(Flatten(served))

RetOnFetchErrorPartial == [items |-> items, err |-> DynamoDBErrQuery]

\* lines 171-173
RetOnFetchError == [items |-> NoItems, err |-> DynamoDBErrQuery]

\* lines 169-173: NextPage(ctx) with a context that is already done: the
\* client returns the context's error without a response
FetchCancelled ==
    /\ pc = "loop"
    /\ HasMorePages(paginator)
    /\ ctxState.done
    /\ calls' = Append(calls, Request(paginator))
    /\ pc' = "done"
    /\ ret' = RetOnFetchError
    /\ UNCHANGED <<opts, ctxState, input, paginator, items, served>>
    /\ UNCHANGED compileVars

\* lines 169-173: NextPage(ctx) fails in the backend or the transport
FetchError ==
    /\ pc = "loop"
    /\ HasMorePages(paginator)
    /\ ~ctxState.done
    /\ calls' = Append(calls, Request(paginator))
    /\ pc' = "done"
    /\ ret' = RetOnFetchError
    /\ UNCHANGED <<opts, ctxState, input, paginator, items, served>>
    /\ UNCHANGED compileVars

AccumulatePrepend(acc, page) == page \o acc

\* line 175: items = append(items, response.Items...)
Accumulate(acc, page) == acc \o page

\* lines 169-175: NextPage(ctx) returns a page
FetchPage ==
    /\ pc = "loop"
    /\ HasMorePages(paginator)
    /\ ~ctxState.done
    /\ Len(served) < MaxPages
    /\ \E n \in 0..(MaxItems - ItemsServed), more \in BOOLEAN :
        \E body \in [1..n -> ItemPool] :
            LET last == IF more THEN TokenOf[Len(served) + 1] ELSE NoToken
            IN  /\ calls' = Append(calls, Request(paginator))
                /\ served' = Append(served, [Items |-> body, LastEvaluatedKey |-> last])
                /\ items' = Accumulate(items, body)
                /\ paginator' = [paginator EXCEPT !.firstPage = FALSE,
                                                  !.nextToken = last]
    /\ UNCHANGED <<opts, pc, ctxState, input, ret>>
    /\ UNCHANGED compileVars

\* line 178, reached when HasMorePages() is false
QueryReturn ==
    /\ pc = "loop"
    /\ ~HasMorePages(paginator)
    /\ pc' = "done"
    /\ ret' = [items |-> items, err |-> NoErr]
    /\ UNCHANGED <<opts, ctxState, input, paginator, items, calls, served>>
    /\ UNCHANGED compileVars

\* the caller cancels ctx, or its deadline passes, while Query runs
Cancel ==
    /\ pc \in {"start", "loop"}
    /\ ~ctxState.done
    /\ ctxState' = [done |-> TRUE, after |-> Len(served),
                    more |-> pc = "loop" /\ HasMorePages(paginator)]
    /\ UNCHANGED <<opts, pc, input, paginator, items, calls, served, ret>>
    /\ UNCHANGED compileVars

Next == QueryBegin \/ FetchCancelled \/ FetchError \/ FetchPage \/ QueryReturn \/ Cancel

Spec == Init /\ [][Next]_vars

InitCompile ==
    /\ where \in CompileInputs
    /\ cres = NoResult
    /\ cpc = "call"
    /\ QueryIdle

\* one call of buildFilterExpression (lines 181-221)
Compile ==
    /\ cpc = "call"
    /\ cres' = buildFilterExpression(where)
    /\ cpc' = "done"
    /\ UNCHANGED <<where>>
    /\ UNCHANGED queryVars

NextCompile == Compile

SpecCompile == InitCompile /\ [][NextCompile]_vars

(***************************************************************************)
(* Properties of Query (specification Spec).                               *)
(***************************************************************************)
PartitionMissing(o) ==
    \/ o.Partition = NilPtr
    \/ Deref(o.Partition).Key = ""
    \/ Deref(o.Partition).Value = Nil

\* C1: Query validates Table, then Index, then Partition, and returns the
\* first failure (TableNotSet, IndexNotSet, PartitionNotSet) with nil items
\* and without any request having been handed to the backend.
C1_ValidationOrder ==
    pc = "done" =>
        /\ opts.Table = "" =>
                /\ ret = [items |-> NoItems, err |-> DynamoDBErrTableNotSet]
                /\ calls = <<>> /\ served = <<>>
        /\ opts.Table # "" /\ opts.Index = "" =>
                /\ ret = [items |-> NoItems, err |-> DynamoDBErrIndexNotSet]
                /\ calls = <<>> /\ served = <<>>
        /\ opts.Table # "" /\ opts.Index # "" /\ PartitionMissing(opts) =>
                /\ ret = [items |-> NoItems, err |-> DynamoDBErrPartitionNotSet]
                /\ calls = <<>> /\ served = <<>>

\* Query returned IndexNotSet for options whose Index and Partition are both
\* missing, and PartitionNotSet is reachable as well (see C1_ValidationOrder).
C1_Witness ==
    /\ pc = "done"
    /\ opts.Table # "" /\ opts.Index = "" /\ PartitionMissing(opts)
    /\ ret.err = DynamoDBErrIndexNotSet

RECURSIVE WellFormed(_)
\* a Where every node of which has a child and every condition of which has
\* a known operator, a name and, for IN, an operand
WellFormed(w) ==
    /\ Len(w.Conditions) + Len(w.Groups) > 0
    /\ \A i \in 1..Len(w.Conditions) :
        /\ w.Conditions[i].Field # ""
        /\ w.Conditions[i].Operator \in
            {Equal, NotEqual, LessThan, LessThanEqual, GreaterThan,
             GreaterThanEqual, Between, In, Contains, BeginsWith,
             AttributeExists, AttributeNotExists}
        /\ w.Conditions[i].Operator = In => Len(w.Conditions[i].Values) > 0
    /\ \A i \in 1..Len(w.Groups) : WellFormed(w.Groups[i])

ValidOptions(o) ==
    /\ o.Table # "" /\ o.Index # "" /\ ~PartitionMissing(o)
    /\ \/ o.Sort = NilPtr
       \/ Deref(o.Sort).Key = ""
       \/ Deref(o.Sort).Value = Nil
       \/ Deref(o.Sort).Operator = Equal
    /\ o.Where # NilPtr => WellFormed(Deref(o.Where))

\* request i starts where page i-1 ended, the first one at the beginning
TokensChained ==
    \A i \in 1..Len(calls) :
        calls[i].ExclusiveStartKey =
            IF i = 1 THEN NoToken ELSE served[i - 1].LastEvaluatedKey

Exhausted == served # <<>> /\ served[Len(served)].LastEvaluatedKey = NoToken

\* C2: for valid options, when the backend has returned pages P1..Pn and
\* signalled exhaustion with Pn, Query has fetched exactly those n pages, one
\* request each, in sequence, and returns P1 ++ ... ++ Pn with no error.
C2_AllPagesInOrder ==
    /\ pc = "done" /\ ValidOptions(opts) => calls # <<>>
    /\ pc = "done" /\ ret.err = NoErr => Exhausted
    /\ Exhausted => pc \in {"loop", "done"} /\ ValidOptions(opts)
    /\ pc = "done" /\ Exhausted =>
        /\ ret = [items |-> Flatten(served), err |-> NoErr]
        /\ Len(calls) = Len(served)
        /\ TokensChained
        /\ \A i \in 1..(Len(served) - 1) : served[i].LastEvaluatedKey # NoToken

\* three pages, the first with two different items, returned in full
C2_Witness ==
    /\ pc = "done" /\ ret.err = NoErr
    /\ Len(served) = 3
    /\ Len(served[1].Items) = 2 /\ served[1].Items[1] # served[1].Items[2]
    /\ Len(served[3].Items) = 1
    /\ Len(ret.items) = 3

\* C3: when the fetch of page k fails, Query returns QueryFailed with nil
\* items, drops the k-1 accumulated pages, does not retry and fetches nothing
\* more: the failed request is the last one.
C3_AbortOnFetchError ==
    /\ Len(calls) \in {Len(served), Len(served) + 1}
    /\ Len(calls) > Len(served) =>
        /\ pc = "done"
        /\ ret = [items |-> NoItems, err |-> DynamoDBErrQuery]
    /\ pc = "done" /\ ret.err = DynamoDBErrQuery => Len(calls) = Len(served) + 1

\* the backend failed on the third page, after two pages with items
C3_Witness ==
    /\ pc = "done" /\ ~ctxState.done
    /\ Len(calls) = 3 /\ Len(served) = 2
    /\ items # <<>>
    /\ ret = [items |-> NoItems, err |-> DynamoDBErrQuery]

Cancelled == New("context canceled")    \* context.Canceled, ctx.Err()

\* C4: if ctx is cancelled after a page fetch completed and while more pages
\* remain, Query makes no further request and returns the context's
\* cancellation error, not QueryFailed.
C4_CancelBetweenPages ==
    pc = "done" /\ ctxState.done /\ ctxState.after >= 1 /\ ctxState.more =>
        /\ Is(ret.err, Cancelled)
        /\ ~Is(ret.err, DynamoDBErrQuery)
        /\ Len(calls) = ctxState.after

\* C5: the first request carries options.Cursor as its start token and each
\* later request the token returned with the preceding page.
C5_CursorStartsPagination ==
    \A i \in 1..Len(calls) :
        calls[i].ExclusiveStartKey =
            IF i = 1 THEN opts.Cursor ELSE served[i - 1].LastEvaluatedKey

\* C6: the request's page size limit is 100 when options.Limit is zero and
\* options.Limit otherwise.
C6_DefaultLimit ==
    pc \in {"loop", "done"} /\ input # NoInput =>
        input.Limit = IF opts.Limit = 0 THEN defaultLimit ELSE opts.Limit

\* C10: when options.Where is set and does not compile, Query returns
\* BuildFilterExpressionFailed wrapping the compile error, with nil items and
\* without a request to the backend.
C10_FilterErrorWrapped ==
    (/\ pc = "done"
     /\ Validate(opts) = NoErr /\ KeyCondition(opts).err = NoErr
     /\ opts.Where # NilPtr
     /\ buildFilterExpression(Deref(opts.Where)).err # NoErr) =>
        /\ Is(ret.err, DynamoDBErrBuildFilterExpression)
        /\ Is(ret.err, buildFilterExpression(Deref(opts.Where)).err)
        /\ ret.items = NoItems
        /\ calls = <<>>

(***************************************************************************)
(* Properties of the compiler (specification SpecCompile).                 *)
(***************************************************************************)
Fields == {"a", "b", "c", "f"}

RECURSIVE Holds(_, _)
\* the truth of a compiled predicate when exactly the conditions on the
\* attributes in `true` hold
Holds(p, true) ==
    IF p[1] = "AND"
    THEN Holds(p[2], true) /\ Holds(p[3], true)
    ELSE IF p[1] = "OR"
    THEN Holds(p[2], true) \/ Holds(p[3], true)
    ELSE p[2] \in true

RECURSIVE Means(_, _)
\* the truth of a Where read as the spec reads it: all children under AND or
\* the empty operator, some child otherwise
Means(w, true) ==
    IF w.Operator = "" \/ w.Operator = AND
    THEN /\ \A i \in 1..Len(w.Conditions) : w.Conditions[i].Field \in true
         /\ \A i \in 1..Len(w.Groups) : Means(w.Groups[i], true)
    ELSE \/ \E i \in 1..Len(w.Conditions) : w.Conditions[i].Field \in true
         \/ \E i \in 1..Len(w.Groups) : Means(w.Groups[i], true)

RECURSIVE Spine(_, _)
\* the n operands of a left-nested chain, leftmost first
Spine(p, n) == IF n = 1 THEN <<p>> ELSE Spine(p[2], n - 1) \o <<p[3]>>

RECURSIVE SpineOperators(_, _)
\* the operators joining the n operands of a left-nested chain
SpineOperators(p, n) ==
    IF n = 1 THEN {} ELSE SpineOperators(p[2], n - 1) \cup {p[1]}

\* the children of a node in the order the compiler folds them: the leaf
\* conditions, then the nested groups, each compiled on its own
Children(w) ==
    [i \in 1..(Len(w.Conditions) + Len(w.Groups)) |->
        IF i <= Len(w.Conditions)
        THEN buildSingleCondition(w.Conditions[i]).pred
        ELSE buildFilterExpression(w.Groups[i - Len(w.Conditions)]).pred]

PredA == <<"equal", "a", <<"1">>>>
PredB == <<"equal", "b", <<"2">>>>
PredC == <<"equal", "c", <<"3">>>>

\* C7, as stated: the example tree compiles to (A OR B) AND C, the group
\* before the condition.
C7_ExampleGroupFirst ==
    cpc = "done" /\ where = ExampleWhere =>
        cres = Ok(<<"AND", <<"OR", PredA, PredB>>, PredC>>)

\* C7, amended: a Where that compiles becomes the left-nested chain of its
\* children under one operator (AND for "" and AND, OR otherwise), the leaf
\* conditions first and then the nested groups, each group one operand; it
\* is true exactly when the Where is; the example compiles to C AND (A OR B).
C7_UniformLeftFold ==
    cpc = "done" /\ cres.err = NoErr =>
        LET n == Len(where.Conditions) + Len(where.Groups)
        IN  /\ n >= 1
            /\ Spine(cres.pred, n) = Children(where)
            /\ SpineOperators(cres.pred, n) \subseteq
                    {IF where.Operator \in {"", AND} THEN "AND" ELSE "OR"}
            /\ \A true \in SUBSET Fields :
                    Holds(cres.pred, true) = Means(where, true)
            /\ where = ExampleWhere =>
                    cres.pred = <<"AND", PredC, <<"OR", PredA, PredB>>>>

\* the example tree has been compiled
C7_Witness ==
    /\ cpc = "done"
    /\ where = ExampleWhere
    /\ cres.err = NoErr

RECURSIVE HasEmptyNode(_)
HasEmptyNode(w) ==
    \/ Len(w.Conditions) + Len(w.Groups) = 0
    \/ \E i \in 1..Len(w.Groups) : HasEmptyNode(w.Groups[i])

RECURSIVE AllConditions(_)
\* every condition of the tree
AllConditions(w) ==
    {w.Conditions[i] : i \in 1..Len(w.Conditions)}
    \cup UNION {AllConditions(w.Groups[i]) : i \in 1..Len(w.Groups)}

RECURSIVE Complete(_)
\* a compiled predicate with no empty ConditionBuilder inside
Complete(p) ==
    /\ p # NoPred
    /\ p[1] \in {"AND", "OR"} => Complete(p[2]) /\ Complete(p[3])

\* C8: a Where with no conditions and no groups fails with EmptyWhereClause
\* whatever its operator, and a tree with an empty group at any depth fails
\* as a whole and returns no predicate (with EmptyWhereClause when no
\* condition of the tree fails first).
C8_EmptyNodeFails ==
    cpc = "done" =>
        /\ Len(where.Conditions) + Len(where.Groups) = 0 => cres = Fail(ErrNoConditions)
        /\ HasEmptyNode(where) => cres.err # NoErr /\ cres.pred = NoPred
        /\ (/\ HasEmptyNode(where)
            /\ \A c \in AllConditions(where) : buildSingleCondition(c).err = NoErr)
                => cres = Fail(ErrNoConditions)
        /\ cres.err = NoErr => Complete(cres.pred)
        /\ cres.err # NoErr => cres.pred = NoPred

\* a tree with conditions at the root and an empty group two levels down,
\* under OR, failed to compile
C8_Witness ==
    /\ cpc = "done"
    /\ where.Operator = OR
    /\ Len(where.Conditions) = 1
    /\ Len(where.Groups) = 1
    /\ Len(where.Groups[1].Groups) = 1
    /\ Len(where.Groups[1].Conditions) = 1
    /\ Len(where.Groups[1].Groups[1].Conditions) + Len(where.Groups[1].Groups[1].Groups) = 0
    /\ cres = Fail(ErrNoConditions)

MissingRangeBound == New("missing range bound")

\* C9: a BETWEEN condition fails with MissingRangeBound when Value or Value2
\* is nil, and compiles to a range predicate only when both are set.
C9_BetweenNeedsBothBounds ==
    (/\ cpc = "done"
     /\ Len(where.Conditions) = 1 /\ Len(where.Groups) = 0
     /\ where.Conditions[1].Operator = Between) =>
        IF where.Conditions[1].Value = Nil \/ where.Conditions[1].Value2 = Nil
        THEN cres = Fail(MissingRangeBound)
        ELSE cres.err = NoErr /\ cres.pred[1] = "between"

====
